---- MODULE Spec2Model ----
(***************************************************************************)
(* PlayerESP (controller/src/enhancements/player/mod.rs): the per-tick     *)
(* snapshot builder `update`, the visual-profile resolver                  *)
(* `resolve_esp_player_config` and the render pass `render`.               *)
(*                                                                         *)
(* `update` is modelled in steps: UpdateBegin is everything up to the      *)
(* entity loop (lines 92-131), UpdateEntity is one iteration of the loop   *)
(* (lines 133-170) and UpdateEnd is the loop's exit (line 172).  While the *)
(* loop runs (pc = "loop") nothing else can run: update holds &mut self.   *)
(* The external entity graph is revealed one entity per iteration.         *)
(***************************************************************************)
EXTENDS Integers, Sequences, FiniteSets, TLC

VARIABLES
    pc,              \* position of update: "idle" (not running) or "loop"
    toggle_enabled,  \* PlayerESP.toggle.enabled
    players,         \* PlayerESP.players, the snapshot
    local_team_id,   \* PlayerESP.local_team_id
    view_target,     \* LocalCameraControllerTarget.target_entity_id this tick
    seen,            \* identities the running walk has enumerated so far
    last_op,         \* the call running or last returned: "new", "update", "render"
    result,          \* what that call returned: "Ok" or "Err"
    site,            \* the last read the last update call performed
    reads,           \* the reads the last update call performed
    fault,           \* the read that failed in the last update call, or "none"
    controller,      \* the local player controller the last update call found
    metrics,         \* the telemetry records the last update call emitted
    settings,        \* AppSettings: esp_settings_enabled and esp_settings
    view,            \* ViewController: the camera and what it projects
    model,           \* CS2Model of the snapshot's model_address
    draws,           \* the draw commands emitted since the last update call began
    resolved,        \* the last answer of resolve_esp_player_config
    expected,        \* history: the records the running walk ought to keep
    team_read,       \* history: the team the current update call read, or NoTeam
    built_team       \* history: team_read of the call that built the snapshot

vars == <<pc, toggle_enabled, players, local_team_id, view_target, seen,
          last_op, result, site, reads, fault, controller, metrics, settings,
          view, model, draws, resolved, expected, team_read, built_team>>

\* the history variables
history == <<expected, team_read, built_team>>

\* the fields of PlayerESP
self == <<toggle_enabled, players, local_team_id>>

\* the state registry as far as render reads it
registry == <<settings, view, model>>

(***************************************************************************)
(* Bounds of the model                                                     *)
(***************************************************************************)
\* the entity graph holds at most this many entities per tick
MaxEntities == 2

None == "None"

\* no entity: the camera has no target
NoEntity == 0

\* no team: the update call did not read the controller's team
NoTeam == 0

\* the identities the graph enumerates
EntityIds == 1 .. MaxEntities

\* the identities the camera target ranges over: an entity of the graph, or
\* one the graph does not enumerate
TargetIds == 1 .. MaxEntities + 1

\* team numbers m_iPendingTeamNum and StatePawnInfo.team_id range over
Teams == {2, 3}

\* player_health values the graph may hold
Healths == {-5, 0, 50}

Names == {None, "name"}

(***************************************************************************)
(* KeyToggle (crate::view), consumed at lines 96-99.                       *)
(***************************************************************************)
KeyToggleModes == {"AlwaysOn", "Toggle", "Trigger", "Off"}

\* the hotkey this frame: not down, pressed this frame (an edge), or held
KeyStates == {"up", "pressed", "held"}

\* the state KeyToggle::update computes from the mode and the input
KeyToggleNewState(enabled, mode, key) ==
    CASE mode = "AlwaysOn" -> TRUE
      [] mode = "Toggle"   -> IF key = "pressed" THEN ~enabled ELSE enabled
      [] mode = "Trigger"  -> key \in {"pressed", "held"}
      [] OTHER             -> FALSE

\* KeyToggle::update returns whether the state changed
KeyToggleUpdate(enabled, mode, key) ==
    [enabled |-> KeyToggleNewState(enabled, mode, key),
     changed |-> KeyToggleNewState(enabled, mode, key) # enabled]

(***************************************************************************)
(* The external entity graph                                               *)
(***************************************************************************)
\* StatePawnInfo as far as update, the resolver and render read it
PawnInfo(team_id, player_health, player_name, position, weapon, kit, flashtime) ==
    [team_id |-> team_id, player_health |-> player_health,
     player_name |-> player_name, position |-> position, weapon |-> weapon,
     player_has_defuser |-> kit, player_flashtime |-> flashtime]

\* the pawn infos the entity graph holds: a player of either team that
\* update keeps, a player without health and a player without a name
PawnInfos ==
    {PawnInfo(t, 50, "name", 100, 7, FALSE, 0) : t \in Teams}
    \cup {PawnInfo(2, h, n, 100, 7, FALSE, 0) : h \in Healths, n \in Names}

DefaultInfo == PawnInfo(2, 50, "name", 100, 7, FALSE, 0)

\* StatePawnModelInfo: the model and one position per bone
DefaultModel == [model_address |-> 1, bone_states |-> <<10, 11>>]

\* One entity of the graph: the values its reads give, and `fail`, the read
\* of it that fails with a transient error ("none": no read of it fails).
\* A read that update cannot reach (it follows the failing read or a
\* `continue`) holds its default, so each entity stands for one path of
\* the loop body.
Entity(id, fail, class_name, pawn_state, pawn_info) ==
    [id |-> id, fail |-> fail, class_name |-> class_name,
     pawn_state |-> pawn_state, pawn_info |-> pawn_info,
     pawn_model |-> DefaultModel]

EntityReads == <<"handle", "entity_class_info", "lookup", "PlayerPawnState",
                 "StatePawnInfo", "StatePawnModelInfo">>

EntitiesOf(id) ==
    {Entity(id, f, "C_CSPlayerPawn", "Alive", DefaultInfo) :
        f \in {EntityReads[k] : k \in 1 .. Len(EntityReads)}}
    \cup {Entity(id, "none", c, "Alive", DefaultInfo) : c \in {None, "C_Other"}}
    \cup {Entity(id, "none", "C_CSPlayerPawn", "Dead", DefaultInfo)}
    \cup {Entity(id, "none", "C_CSPlayerPawn", "Alive", i) : i \in PawnInfos}

(***************************************************************************)
(* PlayerESP::update, lines 92-173                                         *)
(***************************************************************************)
\* lines 96-107 with the record added whatever toggle.update returns
AddMetricsRecordEveryTick(changed, enabled, mode) ==
    <<[enabled |-> enabled, mode |-> mode]>>

\* lines 96-107: one telemetry record when toggle.update reports a change
AddMetricsRecord(changed, enabled, mode) ==
    IF changed THEN <<[enabled |-> enabled, mode |-> mode]>> ELSE <<>>

\* line 109 without the clear
ClearPlayersKeep(ps) == ps

\* line 109: self.players.clear()
ClearPlayers(ps) == <<>>

\* line 110 without the early return
ToggleOffNever(enabled) == FALSE

\* line 110: the feature is off
ToggleOff(enabled) == ~enabled

\* line 134: the entity is the camera target
IsViewTarget(e, target) == e.id = target

\* lines 139-142 with every class taken for the player-pawn class
IsPlayerPawnAny(class_name) == TRUE

\* lines 139-142: the entity's class is the tracked player-pawn class
IsPlayerPawn(class_name) ==
    IF class_name = None THEN FALSE ELSE class_name = "C_CSPlayerPawn"

\* line 158 with `<` for `<=`: a pawn with no health left is kept
SkipPawnInfoStrict(info) == info.player_health < 0 \/ info.player_name = None

\* line 158: the `continue` condition on the resolved pawn info
SkipPawnInfo(info) == info.player_health <= 0 \/ info.player_name = None

\* lines 166-169: the record pushed; `entity` and `fresh` are history
\* variables: the identity the record was built from, and whether it was
\* built by the update call that is running or has last returned
PlayerESPInfo(e) ==
    [pawn_info |-> e.pawn_info, pawn_model |-> e.pawn_model,
     entity |-> e.id, fresh |-> TRUE]

\* the snapshot as the next update call finds it: built by an earlier call
Aged(ps) == [i \in 1 .. Len(ps) |-> [ps[i] EXCEPT !.fresh = FALSE]]

\* lines 134-169, one iteration: "Err" (a `?` returned), "skip" (a
\* `continue`) or "push", and the fallible read it ended at
LoopBody(e, target) ==
    IF e.fail = "handle" THEN [out |-> "Err", at |-> "handle"]
    ELSE IF IsViewTarget(e, target) THEN [out |-> "skip", at |-> "handle"]
    ELSE IF e.fail = "entity_class_info" THEN [out |-> "Err", at |-> "entity_class_info"]
    ELSE IF e.fail = "lookup" THEN [out |-> "Err", at |-> "lookup"]
    ELSE IF ~IsPlayerPawn(e.class_name) THEN [out |-> "skip", at |-> "lookup"]
    ELSE IF e.fail = "PlayerPawnState" THEN [out |-> "Err", at |-> "PlayerPawnState"]
    ELSE IF e.pawn_state # "Alive" THEN [out |-> "skip", at |-> "PlayerPawnState"]
    ELSE IF e.fail = "StatePawnInfo" THEN [out |-> "Err", at |-> "StatePawnInfo"]
    ELSE IF SkipPawnInfo(e.pawn_info) THEN [out |-> "skip", at |-> "StatePawnInfo"]
    ELSE IF e.fail = "StatePawnModelInfo" THEN [out |-> "Err", at |-> "StatePawnModelInfo"]
    ELSE [out |-> "push", at |-> "StatePawnModelInfo"]

\* update returns: the call is over
Return(res, at, rd) ==
    /\ pc' = "idle"
    /\ last_op' = "update"
    /\ result' = res
    /\ site' = at
    /\ reads' = rd
    /\ seen' = {}

\* lines 93-95: the three resolves before the toggle; the first that fails
\* returns its error
Prelude == <<"StateEntityList", "ClassNameCache", "AppSettings">>

\* lines 96-131, after the three resolves: the toggle, then the reads of the
\* local viewer in order
ViewerReads == <<"toggle", "StateCS2Memory", "StateLocalPlayerController",
                 "value_reference", "m_iPendingTeamNum",
                 "LocalCameraControllerTarget">>

Range(seq) == {seq[k] : k \in 1 .. Len(seq)}

\* the reads of `seq` up to and including x
Upto(seq, x) ==
    LET i == CHOOSE k \in 1 .. Len(seq) : seq[k] = x
    IN  {seq[k] : k \in 1 .. i}

\* the reads of update up to and including x of ViewerReads
ReadsUpto(x) == Range(Prelude) \cup Upto(ViewerReads, x)

\* lines 128-131 without the return: the walk runs with no camera target
TargetAbsentNever(target) == FALSE

\* lines 128-131: the camera has no target
TargetAbsent(target) == target = NoEntity

\* lines 92-131.  The environment of this call: `target`, the camera target
\* of this tick; the read that fails with a transient error, if any
\* (fault'); the hotkey; whether a local player controller exists
\* (controller') and its team.  What the call does not reach is not drawn.
UpdateBegin ==
    /\ pc = "idle"
    /\ draws' = <<>>
    /\ expected' = <<>>
    /\ UNCHANGED <<registry, resolved>>
    /\ \E target \in {NoEntity} \cup TargetIds :
        /\ view_target' = target
        /\ \/ \E fail \in Range(Prelude) :
                \* lines 93-95: `?` returns before the toggle and the clear
                /\ fault' = fail
                /\ controller' = "unread"
                /\ Return("Err", fail, Upto(Prelude, fail))
                /\ metrics' = <<>>
                /\ players' = Aged(players)
                /\ team_read' = NoTeam
                /\ UNCHANGED <<toggle_enabled, local_team_id, built_team>>
           \/ \E key \in KeyStates :
                LET t == KeyToggleUpdate(toggle_enabled, settings.esp_mode, key)
                IN  /\ toggle_enabled' = t.enabled
                    /\ metrics' = AddMetricsRecord(t.changed, t.enabled, settings.esp_mode)
                    /\ players' = ClearPlayers(Aged(players))
                    /\ built_team' = NoTeam
                    /\ IF ToggleOff(t.enabled)
                       THEN \* lines 110-112
                            /\ fault' = "none"
                            /\ controller' = "unread"
                            /\ Return("Ok", "toggle", ReadsUpto("toggle"))
                            /\ team_read' = NoTeam
                            /\ UNCHANGED local_team_id
                       ELSE \/ \E fail \in {"StateCS2Memory", "StateLocalPlayerController"} :
                                \* lines 116-117
                                /\ fault' = fail
                                /\ controller' = "unread"
                                /\ Return("Err", fail, ReadsUpto(fail))
                                /\ team_read' = NoTeam
                                /\ UNCHANGED local_team_id
                            \/ \* lines 118-123: no local player controller
                                /\ fault' = "none"
                                /\ controller' = "none"
                                /\ Return("Ok", "value_reference", ReadsUpto("value_reference"))
                                /\ team_read' = NoTeam
                                /\ UNCHANGED local_team_id
                            \/ \* line 125: reading the team fails
                                /\ fault' = "m_iPendingTeamNum"
                                /\ controller' = "some"
                                /\ Return("Err", "m_iPendingTeamNum",
                                          ReadsUpto("m_iPendingTeamNum"))
                                /\ team_read' = NoTeam
                                /\ UNCHANGED local_team_id
                            \/ \E team \in Teams :
                                \* line 125, then lines 127-131
                                /\ local_team_id' = team
                                /\ team_read' = team
                                /\ controller' = "some"
                                /\ \/ /\ fault' = "LocalCameraControllerTarget"
                                      /\ Return("Err", "LocalCameraControllerTarget",
                                                ReadsUpto("LocalCameraControllerTarget"))
                                   \/ /\ fault' = "none"
                                      /\ IF TargetAbsent(target)
                                         THEN Return("Ok", "LocalCameraControllerTarget",
                                                     ReadsUpto("LocalCameraControllerTarget"))
                                         ELSE /\ pc' = "loop"
                                              /\ last_op' = "update"
                                              /\ seen' = {}
                                              /\ reads' = ReadsUpto("LocalCameraControllerTarget")
                                                            \cup {"entities"}
                                              /\ site' = "entities"
                                              /\ UNCHANGED result

\* the entity is one the walk is to keep: not the camera target, of the
\* tracked class, alive, with health left and a name
Tracked(e, target) ==
    /\ e.id # target
    /\ e.class_name = "C_CSPlayerPawn"
    /\ e.pawn_state = "Alive"
    /\ e.pawn_info.player_health > 0
    /\ e.pawn_info.player_name # None

\* lines 133-170: the iterator yields one more entity.  The graph is
\* enumerated in the order of its identities, each entity once.
UpdateEntity ==
    /\ pc = "loop"
    /\ \E id \in {x \in EntityIds : \A y \in seen : y < x} :
        \E e \in EntitiesOf(id) :
            LET b == LoopBody(e, view_target)
            IN  /\ players' = IF b.out = "push"
                               THEN Append(players, PlayerESPInfo(e))
                               ELSE players
                /\ built_team' = IF b.out = "push" THEN team_read ELSE built_team
                /\ expected' = IF Tracked(e, view_target)
                                THEN Append(expected, e)
                                ELSE expected
                /\ IF b.out = "Err"
                   THEN /\ Return("Err", b.at, reads)
                        /\ fault' = b.at
                   ELSE /\ seen' = seen \cup {id}
                        /\ site' = b.at
                        /\ UNCHANGED <<pc, last_op, result, reads, fault>>
    /\ UNCHANGED <<toggle_enabled, local_team_id, view_target, metrics, controller>>
    /\ UNCHANGED <<registry, draws, resolved, team_read>>

\* line 172: the iterator is exhausted
UpdateEnd ==
    /\ pc = "loop"
    /\ Return("Ok", site, reads)
    /\ UNCHANGED <<toggle_enabled, players, local_team_id, view_target, metrics>>
    /\ UNCHANGED <<fault, controller>>
    /\ UNCHANGED <<registry, draws, resolved, history>>

(***************************************************************************)
(* EspSelector (crate::settings): the selector hierarchy the resolver      *)
(* walks.  PlayerTeamVisibility -> PlayerTeam -> Player -> no parent.      *)
(***************************************************************************)
Selector(kind, enemy, visible) == [kind |-> kind, enemy |-> enemy, visible |-> visible]

\* the generic selector: any player
PlayerSelector == Selector("Player", FALSE, FALSE)

PlayerTeam(enemy) == Selector("PlayerTeam", enemy, FALSE)

PlayerTeamVisibility(enemy, visible) == Selector("PlayerTeamVisibility", enemy, visible)

\* Option<EspSelector>
SomeSel(sel) == [some |-> TRUE, sel |-> sel]

NoSel == [some |-> FALSE, sel |-> PlayerSelector]

\* EspSelector::config_key
ConfigKey(sel) ==
    CASE sel.kind = "Player" -> "player"
      [] sel.kind = "PlayerTeam" ->
            IF sel.enemy THEN "player.enemy" ELSE "player.friendly"
      [] sel.kind = "PlayerTeamVisibility" ->
            IF sel.enemy
            THEN IF sel.visible THEN "player.enemy.visible" ELSE "player.enemy.occluded"
            ELSE IF sel.visible THEN "player.friendly.visible" ELSE "player.friendly.occluded"

\* EspSelector::parent
Parent(sel) ==
    CASE sel.kind = "Player" -> NoSel
      [] sel.kind = "PlayerTeam" -> SomeSel(PlayerSelector)
      [] sel.kind = "PlayerTeamVisibility" -> SomeSel(PlayerTeam(sel.enemy))

\* the keys of the selectors the resolver can visit (visibility is always
\* reported as visible, line 65)
ConfigKeys == {"player", "player.enemy", "player.friendly",
               "player.enemy.visible", "player.friendly.visible"}

(***************************************************************************)
(* PlayerESP::resolve_esp_player_config, lines 58-88                       *)
(***************************************************************************)
\* the resolver's loop runs at most this many iterations in the model; a
\* loop that needs more is reported as "Diverged"
MaxResolveSteps == 5

\* lines 63-66 starting at the generic selector
InitialTargetGeneric(target, team_id) == SomeSel(PlayerSelector)

\* lines 63-66: the most specific selector of the target
InitialTarget(target, team_id) ==
    SomeSel(PlayerTeamVisibility(target.team_id # team_id, TRUE))

\* lines 71-75: esp_settings_enabled.get(&key).cloned().unwrap_or_default()
SelectorEnabled(st, key) ==
    IF key \in DOMAIN st.esp_settings_enabled
    THEN st.esp_settings_enabled[key]
    ELSE FALSE

\* lines 77-78: a profile is stored under the key and is of the player kind
HasPlayerConfig(st, key) ==
    IF key \in DOMAIN st.esp_settings
    THEN st.esp_settings[key].kind = "Player"
    ELSE FALSE

\* lines 71-81 without the test of the enabled flag
SelectorMatchesAnyFlag(st, key) == HasPlayerConfig(st, key)

\* lines 71-81: the selector's profile is returned
SelectorMatches(st, key) == SelectorEnabled(st, key) /\ HasPlayerConfig(st, key)

\* line 84 with the selector kept: the loop never reaches a parent
NextTargetSame(target) == SomeSel(target)

\* line 84: esp_target = target.parent()
NextTarget(target) == Parent(target)

\* lines 68-87: the loop from `esp_target` on, `chain` being the selectors
\* visited before.  out: "Some" (with the profile returned), "None", or
\* "Diverged" when MaxResolveSteps iterations did not end the loop.
RECURSIVE ResolveLoop(_, _, _)
ResolveLoop(st, esp_target, chain) ==
    IF ~esp_target.some
    THEN [out |-> "None", key |-> "", chain |-> chain]
    ELSE IF Len(chain) >= MaxResolveSteps
    THEN [out |-> "Diverged", key |-> "", chain |-> chain]
    ELSE LET target == esp_target.sel
             config_key == ConfigKey(target)
         IN  IF SelectorMatches(st, config_key)
             THEN [out |-> "Some", key |-> config_key,
                   chain |-> Append(chain, target)]
             ELSE ResolveLoop(st, NextTarget(target), Append(chain, target))

\* resolve_esp_player_config(&self, settings, target); with out = "Some" the
\* profile returned is st.esp_settings[key].settings
resolve_esp_player_config(team_id, st, target) ==
    ResolveLoop(st, InitialTarget(target, team_id), <<>>)

(***************************************************************************)
(* PlayerESP::render, lines 175-548.  Coordinates and colours are left to  *)
(* the projection and colour collaborators; a draw command records which   *)
(* element is drawn for which snapshot entry, and one argument.            *)
(***************************************************************************)
\* line 185, UNITS_TO_METERS = 0.01905, in units of 1e-5
UnitsToMeters == 1905

Abs(x) == IF x < 0 THEN -x ELSE x

Min(a, b) == IF a < b THEN a ELSE b

\* line 199: the distance in 1e-5 m; positions lie on one axis
Distance(position, view_world_position) ==
    Abs(position - view_world_position) * UnitsToMeters

\* lines 204-208 with `>=` for `>`: an actor at the threshold is skipped
NearPlayersSkipAtThreshold(esp_settings, distance) ==
    esp_settings.near_players /\ distance >= esp_settings.near_players_distance

\* lines 204-208: the near-players filter skips the entry
NearPlayersSkip(esp_settings, distance) ==
    esp_settings.near_players /\ distance > esp_settings.near_players_distance

\* line 210 without the clamp
PlayerRelHealthUnclamped(player_health) == player_health

\* line 210: (player_health / 100).clamp(0, 1), in percent
PlayerRelHealth(player_health) ==
    IF player_health < 0 THEN 0
    ELSE IF player_health > 100 THEN 100 ELSE player_health

\* view.world_to_screen: Some exactly for the points the view projects
WorldToScreen(v, point) == point \in v.on_screen

\* view.calculate_box_2d of the hull at the entry's position, lines 213-216
CalculateBox2D(v, position) == position \in v.box_2d

DrawCmd(actor, what, arg) == [actor |-> actor, what |-> what, arg |-> arg]

\* lines 221-252 without the test of the hitbox flag
SkeletonBoneAnyFlag(v, actor, bone, state, bone_states, k) ==
    IF bone.parent = 0 THEN [out |-> "Ok", draws |-> <<>>]
    ELSE IF bone.parent > Len(bone_states) THEN [out |-> "panic", draws |-> <<>>]
    ELSE IF ~WorldToScreen(v, bone_states[bone.parent]) THEN [out |-> "Ok", draws |-> <<>>]
    ELSE IF ~WorldToScreen(v, state) THEN [out |-> "Ok", draws |-> <<>>]
    ELSE [out |-> "Ok", draws |-> <<DrawCmd(actor, "skeleton", k)>>]

\* lines 221-252: one bone of the skeleton.  "panic": the index
\* bone_states[parent_index] is out of bounds.
SkeletonBone(v, actor, bone, state, bone_states, k) ==
    IF ~bone.hitbox THEN [out |-> "Ok", draws |-> <<>>]
    ELSE IF bone.parent = 0 THEN [out |-> "Ok", draws |-> <<>>]
    ELSE IF bone.parent > Len(bone_states) THEN [out |-> "panic", draws |-> <<>>]
    ELSE IF ~WorldToScreen(v, bone_states[bone.parent]) THEN [out |-> "Ok", draws |-> <<>>]
    ELSE IF ~WorldToScreen(v, state) THEN [out |-> "Ok", draws |-> <<>>]
    ELSE [out |-> "Ok", draws |-> <<DrawCmd(actor, "skeleton", k)>>]

\* lines 218-253: the bones zipped with the bone states, from index k on
RECURSIVE Skeleton(_, _, _, _, _)
Skeleton(v, actor, bones, bone_states, k) ==
    IF k > Min(Len(bones), Len(bone_states))
    THEN [out |-> "Ok", draws |-> <<>>]
    ELSE LET b == SkeletonBone(v, actor, bones[k], bone_states[k], bone_states, k)
         IN  IF b.out # "Ok" THEN b
             ELSE LET rest == Skeleton(v, actor, bones, bone_states, k + 1)
                  IN  [out |-> rest.out, draws |-> b.draws \o rest.draws]

\* lines 256-259: bones.iter().position(|bone| bone.name == "head_0"),
\* 0 when there is none
HeadBoneIndex(bones) ==
    IF \E k \in 1 .. Len(bones) : bones[k].name = "head_0"
    THEN CHOOSE k \in 1 .. Len(bones) :
            /\ bones[k].name = "head_0"
            /\ \A j \in 1 .. k - 1 : bones[j].name # "head_0"
    ELSE 0

\* lines 255-303: the head dot.  The two projected points are the head
\* bone's position raised by head_dot_z and by head_dot_z + 2.
HeadDot(v, actor, esp_settings, bones, bone_states) ==
    IF esp_settings.head_dot = "None" THEN <<>>
    ELSE LET k == HeadBoneIndex(bones)
         IN  IF k = 0 THEN <<>>
             ELSE IF k > Len(bone_states) THEN <<>>
             ELSE IF /\ bone_states[k] \in v.head_on_screen
                     /\ bone_states[k] \in v.head_far_on_screen
                  THEN <<DrawCmd(actor, "head_dot",
                                 IF esp_settings.head_dot = "Filled" THEN 1 ELSE 0)>>
                  ELSE <<>>

\* lines 305-332: the bounding shape
BoxDraw(actor, esp_settings, has_box_2d) ==
    CASE esp_settings.box_type = "Box2D" ->
            IF has_box_2d
            THEN <<DrawCmd(actor, "box_2d", esp_settings.box_width)>>
            ELSE <<>>
      [] esp_settings.box_type = "Box3D" ->
            <<DrawCmd(actor, "box_3d", esp_settings.box_width)>>
      [] OTHER -> <<>>

\* lines 334-439 without the test of the hull rectangle at line 334
HealthBarUngated(actor, esp_settings, has_box_2d, player_rel_health) ==
    IF esp_settings.health_bar # "None"
    THEN <<DrawCmd(actor, "health_border", 1),
           DrawCmd(actor, "health_red", 100 - player_rel_health),
           DrawCmd(actor, "health_green", player_rel_health)>>
    ELSE <<>>

\* lines 334-439: the health bar: its border, then the red and the green
\* part of the fill
HealthBar(actor, esp_settings, has_box_2d, player_rel_health) ==
    IF has_box_2d /\ esp_settings.health_bar # "None"
    THEN <<DrawCmd(actor, "health_border", 1),
           DrawCmd(actor, "health_red", 100 - player_rel_health),
           DrawCmd(actor, "health_green", player_rel_health)>>
    ELSE <<>>

\* lines 487-494: the flags that apply: 0 none, 1 "Kit", 2 "flashed",
\* 3 "Kit, flashed"
PlayerFlags(esp_settings, pawn_info) ==
    (IF esp_settings.info_flag_kit /\ pawn_info.player_has_defuser THEN 1 ELSE 0)
    + (IF esp_settings.info_flag_flashed /\ pawn_info.player_flashtime > 0 THEN 2 ELSE 0)

\* lines 441-513 with the weapon line added before the name line
InfoLinesWeaponFirst(actor, esp_settings, has_box_2d, pawn_info, distance) ==
    IF ~has_box_2d THEN <<>>
    ELSE (IF esp_settings.info_weapon
          THEN <<DrawCmd(actor, "info_weapon", pawn_info.weapon)>> ELSE <<>>)
         \o (IF esp_settings.info_name THEN <<DrawCmd(actor, "info_name", 0)>> ELSE <<>>)
         \o (IF esp_settings.info_hp_text
             THEN <<DrawCmd(actor, "info_hp_text", pawn_info.player_health)>> ELSE <<>>)
         \o (IF PlayerFlags(esp_settings, pawn_info) # 0
             THEN <<DrawCmd(actor, "info_flags", PlayerFlags(esp_settings, pawn_info))>>
             ELSE <<>>)
         \o (IF esp_settings.info_distance
             THEN <<DrawCmd(actor, "info_distance", distance)>> ELSE <<>>)

\* lines 441-513: the label stack
InfoLines(actor, esp_settings, has_box_2d, pawn_info, distance) ==
    IF ~has_box_2d THEN <<>>
    ELSE (IF esp_settings.info_name THEN <<DrawCmd(actor, "info_name", 0)>> ELSE <<>>)
         \o (IF esp_settings.info_weapon
             THEN <<DrawCmd(actor, "info_weapon", pawn_info.weapon)>> ELSE <<>>)
         \o (IF esp_settings.info_hp_text
             THEN <<DrawCmd(actor, "info_hp_text", pawn_info.player_health)>> ELSE <<>>)
         \o (IF PlayerFlags(esp_settings, pawn_info) # 0
             THEN <<DrawCmd(actor, "info_flags", PlayerFlags(esp_settings, pawn_info))>>
             ELSE <<>>)
         \o (IF esp_settings.info_distance
             THEN <<DrawCmd(actor, "info_distance", distance)>> ELSE <<>>)

\* lines 515-544: the tracer line
Tracer(v, actor, esp_settings, position) ==
    IF WorldToScreen(v, position)
    THEN IF esp_settings.tracer_lines # "None"
         THEN <<DrawCmd(actor, "tracer", esp_settings.tracer_lines_width)>>
         ELSE <<>>
    ELSE <<>>

\* lines 200-203: the profile of the entry, or the entry is skipped
ResolvedSkip(r) == r.out # "Some"

\* lines 194-544: one iteration of the loop over the snapshot.  out: "Ok"
\* (the loop goes on), "Err" (line 212 returned an error) or "panic".
RenderEntry(team_id, st, v, mdl, actor, entry) ==
    LET pawn_info == entry.pawn_info
        distance == Distance(pawn_info.position, v.camera.position)
        r == resolve_esp_player_config(team_id, st, pawn_info)
    IN  IF ResolvedSkip(r) THEN [out |-> "Ok", draws |-> <<>>]
        ELSE LET esp_settings == st.esp_settings[r.key].settings
             IN  IF NearPlayersSkip(esp_settings, distance)
                 THEN [out |-> "Ok", draws |-> <<>>]
                 ELSE IF mdl.fail THEN [out |-> "Err", draws |-> <<>>]
                 ELSE LET player_rel_health == PlayerRelHealth(pawn_info.player_health)
                          has_box_2d == CalculateBox2D(v, pawn_info.position)
                          skeleton == IF esp_settings.skeleton
                                      THEN Skeleton(v, actor, mdl.bones,
                                                    entry.pawn_model.bone_states, 1)
                                      ELSE [out |-> "Ok", draws |-> <<>>]
                      IN  IF skeleton.out # "Ok"
                          THEN [out |-> skeleton.out, draws |-> skeleton.draws]
                          ELSE [out |-> "Ok",
                                draws |-> skeleton.draws
                                   \o HeadDot(v, actor, esp_settings, mdl.bones,
                                              entry.pawn_model.bone_states)
                                   \o BoxDraw(actor, esp_settings, has_box_2d)
                                   \o HealthBar(actor, esp_settings, has_box_2d,
                                                player_rel_health)
                                   \o InfoLines(actor, esp_settings, has_box_2d,
                                                pawn_info, distance)
                                   \o Tracer(v, actor, esp_settings, pawn_info.position)]

\* lines 193-545: the loop over self.players from entry k on
RECURSIVE RenderLoop(_, _, _, _, _, _)
RenderLoop(team_id, st, v, mdl, ps, k) ==
    IF k > Len(ps) THEN [out |-> "Ok", draws |-> <<>>]
    ELSE LET e == RenderEntry(team_id, st, v, mdl, k, ps[k])
         IN  IF e.out # "Ok" THEN e
             ELSE LET rest == RenderLoop(team_id, st, v, mdl, ps, k + 1)
                  IN  [out |-> rest.out, draws |-> e.draws \o rest.draws]

\* lines 175-548 without the return of lines 188-191
RenderPassNoCameraCheck(team_id, st, v, mdl, ps) ==
    RenderLoop(team_id, st, v, mdl, ps, 1)

\* lines 175-548: the draw commands render emits and what it returns
RenderPass(team_id, st, v, mdl, ps) ==
    IF ~v.camera.some THEN [out |-> "Ok", draws |-> <<>>]
    ELSE RenderLoop(team_id, st, v, mdl, ps, 1)

\* render iterating with self.players.drain(..) for self.players.iter()
RenderDraining ==
    /\ pc = "idle"
    /\ LET r == RenderPass(local_team_id, settings, view, model, players)
       IN  /\ draws' = r.draws
           /\ result' = r.out
           /\ pc' = IF r.out = "panic" THEN "panicked" ELSE "idle"
    /\ last_op' = "render"
    /\ players' = <<>>
    /\ UNCHANGED <<toggle_enabled, local_team_id, view_target, seen, site, reads,
                   metrics, registry, resolved, fault, controller, history>>

\* render, lines 175-548, as one call
Render ==
    /\ pc = "idle"
    /\ LET r == RenderPass(local_team_id, settings, view, model, players)
       IN  /\ draws' = r.draws
           /\ result' = r.out
           /\ pc' = IF r.out = "panic" THEN "panicked" ELSE "idle"
    /\ last_op' = "render"
    /\ UNCHANGED <<self, view_target, seen, site, reads, metrics, registry, resolved>>
    /\ UNCHANGED <<fault, controller, history>>

\* resolve_esp_player_config applied to entry `k` of the snapshot
ResolveConfig ==
    /\ pc = "idle"
    /\ \E k \in 1 .. Len(players) :
        resolved' = [actor |-> k,
                     r |-> resolve_esp_player_config(local_team_id, settings,
                                                     players[k].pawn_info)]
    /\ UNCHANGED <<pc, self, view_target, seen, last_op, result, site, reads,
                   metrics, registry, draws, fault, controller, history>>

\* the user sets another toggle mode in the settings
SetEspMode ==
    /\ pc = "idle"
    /\ \E mode \in KeyToggleModes \ {settings.esp_mode} :
        settings' = [settings EXCEPT !.esp_mode = mode]
    /\ UNCHANGED <<pc, self, view_target, seen, last_op, result, site, reads,
                   metrics, view, model, draws, resolved, fault, controller,
                   history>>

(***************************************************************************)
(* The configurations, views and models the specifications start from      *)
(***************************************************************************)
\* EspPlayerSettings with every element drawn; `width` tells profiles apart
Profile(width) ==
    [near_players |-> FALSE, near_players_distance |-> 0,
     skeleton |-> TRUE, head_dot |-> "Filled",
     box_type |-> "Box2D", box_width |-> width, health_bar |-> "Left",
     info_name |-> TRUE, info_weapon |-> TRUE, info_hp_text |-> TRUE,
     info_flag_kit |-> TRUE, info_flag_flashed |-> TRUE, info_distance |-> TRUE,
     tracer_lines |-> "BottomCenter", tracer_lines_width |-> width]

\* the width of the profile stored under each key
KeyWidth(key) ==
    CASE key = "player" -> 1
      [] key = "player.enemy" -> 2
      [] key = "player.friendly" -> 3
      [] key = "player.enemy.visible" -> 4
      [] OTHER -> 5

\* EspConfig::Player(profile), or a configuration of another kind
EspConfig(kind, key) == [kind |-> kind, settings |-> Profile(KeyWidth(key))]

\* what is stored under one key: the enabled flag ("missing", "F", "T") and
\* the configuration ("missing", "Player", "Chicken")
KeyEntries ==
    {<<"missing", "Player">>, <<"F", "Player">>,
     <<"T", "missing">>, <<"T", "Chicken">>, <<"T", "Player">>}

\* AppSettings holding entry c[key] under each key
SettingsOf(c) ==
    [esp_mode |-> "Toggle",
     esp_settings_enabled |->
        [k \in {x \in DOMAIN c : c[x][1] # "missing"} |-> c[k][1] = "T"],
     esp_settings |->
        [k \in {x \in DOMAIN c : c[x][2] # "missing"} |-> EspConfig(c[k][2], k)]]

AllSettings == {SettingsOf(c) : c \in [ConfigKeys -> KeyEntries]}

\* a view with a camera that projects everything
FullView ==
    [camera |-> [some |-> TRUE, position |-> 0],
     on_screen |-> {10, 11, 100}, box_2d |-> {100},
     head_on_screen |-> {10, 11}, head_far_on_screen |-> {10, 11}]

NoCameraView == [FullView EXCEPT !.camera.some = FALSE]

\* a camera that projects no point and no hull
BlindView ==
    [FullView EXCEPT !.on_screen = {}, !.box_2d = {},
                     !.head_on_screen = {}, !.head_far_on_screen = {}]

Bone(name, parent, hitbox) == [name |-> name, parent |-> parent, hitbox |-> hitbox]

\* CS2Model: whether resolving it fails, and its bone table
PlayerModel(fail) ==
    [fail |-> fail, bones |-> <<Bone("pelvis", 0, TRUE), Bone("head_0", 1, TRUE)>>]

\* the configuration the update/render specification starts from: the
\* enemy-visible and the generic selector enabled
MainSettings ==
    {SettingsOf([k \in ConfigKeys |->
                    IF k \in {"player", "player.enemy.visible"}
                    THEN <<"T", "Player">> ELSE <<"F", "Player">>])}

\* PlayerESP::new, lines 50-56
Init ==
    /\ pc = "idle"
    /\ toggle_enabled = FALSE
    /\ players = <<>>
    /\ local_team_id = 0
    /\ view_target = NoEntity
    /\ seen = {}
    /\ last_op = "new"
    /\ result = "Ok"
    /\ site = None
    /\ reads = {}
    /\ fault = "none"
    /\ controller = "unread"
    /\ metrics = <<>>
    /\ settings \in MainSettings
    /\ view = FullView
    /\ model = PlayerModel(FALSE)
    /\ draws = <<>>
    /\ resolved = [actor |-> 0, r |-> [out |-> "None", key |-> "", chain |-> <<>>]]
    /\ expected = <<>>
    /\ team_read = NoTeam
    /\ built_team = NoTeam

(***************************************************************************)
(* The resolver and the render pass over every configuration: the          *)
(* specification starts from a snapshot update can have built and applies  *)
(* resolve_esp_player_config and render to it.                             *)
(***************************************************************************)
\* the snapshot holds at most this many records
MaxPlayers == 2

\* the record update builds from an alive, named player pawn of team t
\* that is entity k of the graph
SnapshotEntry(k, t) ==
    PlayerESPInfo(Entity(k, "none", "C_CSPlayerPawn", "Alive",
                         PawnInfo(t, 50, "name", 100, 7, FALSE, 0)))

Snapshots ==
    UNION {{[k \in 1 .. n |-> SnapshotEntry(k, ts[k])] : ts \in [1 .. n -> Teams]} :
            n \in 0 .. MaxPlayers}

InitResolve ==
    /\ pc = "idle"
    /\ toggle_enabled = TRUE
    /\ players \in Snapshots
    \* line 64 reads the team ids only through their inequality: the
    \* local team is fixed and the records' teams range over Teams
    /\ local_team_id = 2
    /\ view_target = NoEntity
    /\ seen = {}
    /\ last_op = "update"
    /\ result = "Ok"
    /\ site = "entities"
    /\ reads = {}
    /\ fault = "none"
    /\ controller = "some"
    /\ metrics = <<>>
    /\ settings \in AllSettings
    /\ view = FullView
    /\ model = PlayerModel(FALSE)
    /\ draws = <<>>
    /\ resolved = [actor |-> 0, r |-> [out |-> "None", key |-> "", chain |-> <<>>]]
    /\ expected = [k \in 1 .. Len(players) |->
                        Entity(k, "none", "C_CSPlayerPawn", "Alive",
                               players[k].pawn_info)]
    /\ team_read = local_team_id
    /\ built_team = IF players = <<>> THEN NoTeam ELSE local_team_id

(***************************************************************************)
(* The render pass over profiles, actors, bone data and projections: the   *)
(* specification starts from a snapshot update can have built, whose first *)
(* record is the actor of one case, and applies render to it.              *)
(***************************************************************************)
\* AppSettings with profile p enabled under the generic selector alone
RenderSettings(p) ==
    [esp_mode |-> "Toggle",
     esp_settings_enabled |-> [k \in {"player"} |-> TRUE],
     esp_settings |-> [k \in {"player"} |-> [kind |-> "Player", settings |-> p]]]

\* the label toggles, each on its own
LabelProfiles ==
    {[Profile(1) EXCEPT !.info_name = a, !.info_weapon = b, !.info_hp_text = c,
                        !.info_distance = d, !.info_flag_kit = e,
                        !.info_flag_flashed = f] :
        a \in BOOLEAN, b \in BOOLEAN, c \in BOOLEAN,
        d \in BOOLEAN, e \in BOOLEAN, f \in BOOLEAN}

\* the box style, the health bar and the tracer anchor
GateProfiles ==
    {[Profile(1) EXCEPT !.box_type = b, !.health_bar = h, !.tracer_lines = t] :
        b \in {"None", "Box2D", "Box3D"}, h \in {"None", "Left"},
        t \in {"None", "BottomCenter"}}

\* the near-players filter: thresholds below, at and above the distance of
\* an actor at position 100 (190500 in 1e-5 m)
NearProfiles ==
    {[Profile(1) EXCEPT !.near_players = n, !.near_players_distance = d] :
        n \in BOOLEAN, d \in {100000, 190500, 300000}}

\* the skeleton and the head dot
BoneProfiles ==
    {[Profile(1) EXCEPT !.skeleton = sk, !.head_dot = h] :
        sk \in BOOLEAN, h \in {"None", "Filled", "NotFilled"}}

\* bone tables: a root, a bone without the hitbox flag, a parent index
\* past the bone states, no head bone, a head bone past the bone states
BoneTables ==
    {<<>>}
    \cup {<<a, b>> :
            a \in {Bone("pelvis", 0, TRUE), Bone("pelvis", 0, FALSE),
                   Bone("pelvis", 2, TRUE), Bone("pelvis", 3, TRUE)},
            b \in {Bone("head_0", 1, TRUE), Bone("head_0", 1, FALSE),
                   Bone("spine", 1, TRUE), Bone("head_0", 3, TRUE),
                   Bone("head_0", 0, TRUE)}}
    \cup {<<Bone("pelvis", 0, TRUE), Bone("spine", 1, TRUE), Bone("head_0", 2, TRUE)>>}

\* the bone states of an actor: one world position per bone read
BoneStates == {<<>>, <<10>>, <<10, 11>>, <<10, 11, 12>>}

\* CS2Model with the bone table `bones`
ModelOf(fail, bones) == [fail |-> fail, bones |-> bones]

\* a view that projects the bone positions and head points named, and the
\* hull and the position of the actors when `body` / `hull` hold
ViewOf(cam, bones_on, head_on, far_on, body, hull) ==
    [camera |-> [some |-> cam, position |-> 0],
     on_screen |-> bones_on \cup (IF body THEN {100, 200} ELSE {}),
     box_2d |-> IF hull THEN {100, 200} ELSE {},
     head_on_screen |-> head_on, head_far_on_screen |-> far_on]

\* one case: the profile, the first actor's pawn info and bone states, the
\* view and the model
RenderCase(p, info, bs, v, mdl) ==
    [profile |-> p, info |-> info, bone_states |-> bs, view |-> v, model |-> mdl]

LabelCases ==
    {RenderCase(p, PawnInfo(3, 50, "name", 100, 7, kit, flash), <<10, 11>>,
                ViewOf(TRUE, {10, 11}, {10, 11}, {10, 11}, TRUE, hull),
                PlayerModel(FALSE)) :
        p \in LabelProfiles, kit \in BOOLEAN, flash \in {0, 1}, hull \in BOOLEAN}

GateCases ==
    {RenderCase(p, PawnInfo(3, h, "name", 100, 7, TRUE, 1), <<10, 11>>,
                ViewOf(cam, {10, 11}, {10, 11}, {10, 11}, body, hull),
                PlayerModel(fail)) :
        p \in GateProfiles, h \in {1, 50, 100, 150}, cam \in BOOLEAN,
        body \in BOOLEAN, hull \in BOOLEAN, fail \in BOOLEAN}

NearCases ==
    {RenderCase(p, PawnInfo(3, 50, "name", pos, 7, TRUE, 1), <<10, 11>>,
                ViewOf(TRUE, {10, 11}, {10, 11}, {10, 11}, body, TRUE),
                PlayerModel(FALSE)) :
        p \in NearProfiles, pos \in {100, 200}, body \in BOOLEAN}

BoneCases ==
    {RenderCase(p, DefaultInfo, bs,
                ViewOf(TRUE, on, h[1], h[2], TRUE, TRUE), ModelOf(FALSE, t)) :
        p \in BoneProfiles, bs \in BoneStates, on \in SUBSET {10, 11, 12},
        h \in {<<{10, 11, 12}, {10, 11, 12}>>, <<{10, 11, 12}, {}>>, <<{}, {}>>},
        t \in BoneTables}

RenderCases == LabelCases \cup GateCases \cup NearCases \cup BoneCases

\* the snapshot of a case: the actor of the case, then n - 1 actors as
\* update builds them from the default pawn
RenderSnapshot(c, n) ==
    [k \in 1 .. n |->
        IF k = 1
        THEN [PlayerESPInfo(Entity(1, "none", "C_CSPlayerPawn", "Alive", c.info))
                EXCEPT !.pawn_model.bone_states = c.bone_states]
        ELSE PlayerESPInfo(Entity(k, "none", "C_CSPlayerPawn", "Alive", DefaultInfo))]

InitRender ==
    /\ pc = "idle"
    /\ toggle_enabled = TRUE
    /\ \E c \in RenderCases, n \in 1 .. MaxPlayers :
        /\ players = RenderSnapshot(c, n)
        /\ settings = RenderSettings(c.profile)
        /\ view = c.view
        /\ model = c.model
    /\ local_team_id = 2
    /\ view_target = MaxPlayers + 1
    /\ seen = {}
    /\ last_op = "update"
    /\ result = "Ok"
    /\ site = "StatePawnModelInfo"
    /\ reads = ReadsUpto("LocalCameraControllerTarget") \cup {"entities"}
    /\ fault = "none"
    /\ controller = "some"
    /\ metrics = <<>>
    /\ draws = <<>>
    /\ resolved = [actor |-> 0, r |-> [out |-> "None", key |-> "", chain |-> <<>>]]
    /\ expected = [k \in 1 .. Len(players) |->
                        Entity(k, "none", "C_CSPlayerPawn", "Alive",
                               players[k].pawn_info)]
    /\ team_read = local_team_id
    /\ built_team = local_team_id

NextRender == Render

SpecRender == InitRender /\ [][NextRender]_vars

NextResolve ==
    \/ ResolveConfig
    \/ Render

SpecResolve == InitResolve /\ [][NextResolve]_vars

Next ==
    \/ UpdateBegin
    \/ UpdateEntity
    \/ UpdateEnd
    \/ Render
    \/ SetEspMode

Spec == Init /\ [][Next]_vars

(***************************************************************************)
(* Properties of update                                                    *)
(***************************************************************************)
\* an update call has returned and nothing has run since but render
AfterUpdate == pc = "idle" /\ last_op = "update"

FreshRecords == {k \in 1 .. Len(players) : players[k].fresh}

\* C1: when a read of an entity fails during the walk, update returns the
\* error and the snapshot it leaves holds none of the records the call
\* appended before the failing entity.
C1_FailFastNoPartialSnapshot ==
    (AfterUpdate /\ fault \in Range(EntityReads)) =>
        (result = "Err" /\ FreshRecords = {})

\* C2: after any update call, whatever its outcome, the snapshot holds no
\* record that an earlier update call built.
C2_NoRecordSurvivesATick ==
    AfterUpdate => FreshRecords = 1 .. Len(players)

\* C3: in every state, every record of the snapshot is of an actor with
\* health > 0 and a resolved name.
C3_SnapshotAliveAndNamed ==
    \A k \in 1 .. Len(players) :
        /\ players[k].pawn_info.player_health > 0
        /\ players[k].pawn_info.player_name # None

\* an update call walked the graph, skipped its last entity on the pawn
\* info (no health or no name) and returned a snapshot with a record
C3_Witness ==
    /\ AfterUpdate
    /\ result = "Ok"
    /\ site = "StatePawnInfo"
    /\ players # <<>>

\* C4: between calls, no record of the snapshot belongs to the entity that
\* is the camera target of the current tick.
C4_ViewTargetNotInSnapshot ==
    pc = "idle" => \A k \in 1 .. Len(players) : players[k].entity # view_target

\* C5: an update call that evaluated the toggle and found the feature off
\* returns Ok with an empty snapshot, having read nothing after the toggle:
\* no local viewer, no camera target, no walk of the entity graph.
C5_DisabledClearsAndReturns ==
    (AfterUpdate /\ "toggle" \in reads /\ ~toggle_enabled) =>
        /\ result = "Ok"
        /\ players = <<>>
        /\ reads = ReadsUpto("toggle")

\* the feature was on and this update call toggled it off
C5_Witness ==
    /\ AfterUpdate
    /\ "toggle" \in reads
    /\ ~toggle_enabled
    /\ metrics # <<>>
    /\ players = <<>>
    /\ local_team_id \in Teams

\* C6: an update call that finds the feature enabled, meets no failing read
\* and finds no local player controller or no camera target returns Ok with
\* an empty snapshot.
C6_AbsenceIsNotAnError ==
    (/\ AfterUpdate
     /\ "toggle" \in reads
     /\ toggle_enabled
     /\ fault = "none"
     /\ (controller = "none" \/ view_target = NoEntity)) =>
        (result = "Ok" /\ players = <<>>)

\* the controller exists, its team was read and the camera has no target
C6_Witness ==
    /\ AfterUpdate
    /\ toggle_enabled
    /\ fault = "none"
    /\ controller = "some"
    /\ view_target = NoEntity
    /\ result = "Ok"
    /\ players = <<>>

\* C7: an update call emits exactly one telemetry record, carrying the new
\* enabled state and the current mode, when it changes the toggle state, and
\* none when it does not; no other step emits a record.
C7_TelemetryOncePerTransition ==
    [][/\ UpdateBegin =>
            metrics' = IF toggle_enabled' # toggle_enabled
                       THEN <<[enabled |-> toggle_enabled', mode |-> settings.esp_mode]>>
                       ELSE <<>>
       /\ ~UpdateBegin => metrics' = metrics]_vars

\* an update call has emitted a record
C7_Witness == AfterUpdate /\ metrics # <<>>

(***************************************************************************)
(* Properties of the resolver                                              *)
(***************************************************************************)
\* the selectors from the most specific one of `info` to the generic one
SelectorChain(info) ==
    <<PlayerTeamVisibility(info.team_id # local_team_id, TRUE),
      PlayerTeam(info.team_id # local_team_id),
      PlayerSelector>>

\* the selector is enabled and a profile of the player kind is stored
\* under its key
Selected(sel) ==
    /\ ConfigKey(sel) \in DOMAIN settings.esp_settings_enabled
    /\ settings.esp_settings_enabled[ConfigKey(sel)]
    /\ ConfigKey(sel) \in DOMAIN settings.esp_settings
    /\ settings.esp_settings[ConfigKey(sel)].kind = "Player"

\* the position in the chain of the first selected selector, 0 if none
FirstSelected(info) ==
    LET c == SelectorChain(info)
        hits == {k \in 1 .. Len(c) : Selected(c[k])}
    IN  IF hits = {} THEN 0 ELSE CHOOSE k \in hits : \A j \in hits : k <= j

\* the parent chain of `sel`, at most n selectors of it
RECURSIVE ParentChain(_, _)
ParentChain(sel, n) ==
    IF n = 0 THEN <<>>
    ELSE IF Parent(sel).some
         THEN <<sel>> \o ParentChain(Parent(sel).sel, n - 1)
         ELSE <<sel>>

NoRepeat(seq) == \A i, j \in 1 .. Len(seq) : i # j => seq[i] # seq[j]

\* C8: the resolver's loop ends within three iterations, visits no selector
\* twice and, when it finds no match, has reached the generic selector; the
\* parent chain of every team-relation/visibility combination reaches the
\* generic selector within three selectors and has no cycle.
C8_SelectorFallbackTerminates ==
    /\ resolved.actor # 0 =>
        /\ resolved.r.out # "Diverged"
        /\ Len(resolved.r.chain) <= 3
        /\ NoRepeat(resolved.r.chain)
        /\ resolved.r.out = "None" =>
                resolved.r.chain[Len(resolved.r.chain)] = PlayerSelector
    /\ \A enemy \in BOOLEAN, visible \in BOOLEAN :
        LET c == ParentChain(PlayerTeamVisibility(enemy, visible), MaxResolveSteps)
        IN  /\ Len(c) = 3
            /\ NoRepeat(c)
            /\ c[3] = PlayerSelector

\* the resolver walked the whole chain and found no match
C8_Witness ==
    /\ resolved.actor # 0
    /\ resolved.r.out = "None"
    /\ Len(resolved.r.chain) = 3

\* the widths of the draw commands of snapshot entry k that carry one
DrawnWidths(k) ==
    {draws[i].arg : i \in {j \in 1 .. Len(draws) :
                            /\ draws[j].actor = k
                            /\ draws[j].what \in {"box_2d", "tracer"}}}

\* C9: when the most specific selector of an actor is enabled and holds a
\* player profile, the resolver returns that profile, whatever its
\* ancestors hold, and render draws the actor with that profile's settings
\* alone.
C9_SpecificityWins ==
    /\ resolved.actor # 0 =>
        LET c == SelectorChain(players[resolved.actor].pawn_info)
        IN  Selected(c[1]) =>
                /\ resolved.r.out = "Some"
                /\ resolved.r.key = ConfigKey(c[1])
    /\ last_op = "render" =>
        \A k \in 1 .. Len(players) :
            LET c == SelectorChain(players[k].pawn_info)
            IN  Selected(c[1]) => DrawnWidths(k) = {KeyWidth(ConfigKey(c[1]))}

\* the most specific selector and an ancestor are both selected, and the
\* resolver has answered
C9_Witness ==
    /\ resolved.actor # 0
    /\ LET c == SelectorChain(players[resolved.actor].pawn_info)
       IN  Selected(c[1]) /\ Selected(c[2]) /\ Selected(c[3])
    /\ resolved.r.out = "Some"
    /\ last_op = "render"
    /\ draws # <<>>

\* C10: the resolver returns the profile of the first selector of the chain
\* that is enabled and holds a player profile, and none exactly when there
\* is no such selector; render then returns Ok, emits no draw command for an
\* actor without a profile and goes on to draw the next actors.
C10_FirstMatchOrSkip ==
    /\ resolved.actor # 0 =>
        LET info == players[resolved.actor].pawn_info
            f == FirstSelected(info)
        IN  IF f = 0
            THEN resolved.r.out = "None"
            ELSE /\ resolved.r.out = "Some"
                 /\ resolved.r.key = ConfigKey(SelectorChain(info)[f])
    /\ last_op = "render" =>
        /\ result = "Ok"
        /\ \A k \in 1 .. Len(players) :
            LET f == FirstSelected(players[k].pawn_info)
            IN  IF f = 0
                THEN \A i \in 1 .. Len(draws) : draws[i].actor # k
                ELSE \E i \in 1 .. Len(draws) : draws[i].actor = k

\* render skipped the first actor, which has no profile, and drew the second
C10_Witness ==
    /\ last_op = "render"
    /\ Len(players) = 2
    /\ FirstSelected(players[1].pawn_info) = 0
    /\ FirstSelected(players[2].pawn_info) # 0
    /\ \E i \in 1 .. Len(draws) : draws[i].actor = 2
    /\ resolved.actor = 1
    /\ resolved.r.out = "None"

(***************************************************************************)
(* Properties of the snapshot a successful walk builds                     *)
(***************************************************************************)
\* an update call found the feature enabled, a local controller and a camera
\* target, walked the graph and returned Ok
WalkedOk ==
    /\ AfterUpdate
    /\ result = "Ok"
    /\ "entities" \in reads
    /\ toggle_enabled
    /\ controller = "some"
    /\ view_target # NoEntity

\* C15: after an update call that returns Ok with the feature enabled, a
\* local controller and a camera target, the snapshot is exactly the
\* sequence, in enumeration order and each entity once, of the enumerated
\* entities that are not the camera target, are of the player-pawn class,
\* are alive, have health > 0 and a name, whatever the earlier calls did.
C15_SnapshotIsFilteredSubsequence ==
    WalkedOk =>
        /\ Len(players) = Len(expected)
        /\ \A k \in 1 .. Len(players) :
            /\ players[k].entity = expected[k].id
            /\ players[k].pawn_info = expected[k].pawn_info
            /\ players[k].pawn_model = expected[k].pawn_model
            /\ players[k].fresh
        /\ \A i, j \in 1 .. Len(players) :
            i < j => players[i].entity < players[j].entity

\* the walk skipped an entity and kept the one after it
C15_Witness ==
    /\ WalkedOk
    /\ Len(players) = 1
    /\ players[1].entity = MaxEntities
    /\ view_target # 1

\* C20: whenever the snapshot is not empty, the stored local team id is the
\* team that the update call which built the snapshot read from the local
\* controller.
C20_TeamIdPairedWithSnapshot ==
    players # <<>> =>
        /\ built_team # NoTeam
        /\ local_team_id = built_team

\* a failed update call has left a snapshot that an earlier call built
C20_Witness ==
    /\ AfterUpdate
    /\ result = "Err"
    /\ players # <<>>
    /\ FreshRecords = {}
    /\ team_read = NoTeam
    /\ local_team_id = built_team

TheProfile == settings.esp_settings["player"].settings

\* render emitted a draw command `what` for actor k
Drawn(k, what) ==
    \E i \in 1 .. Len(draws) : draws[i].actor = k /\ draws[i].what = what

\* the distance of actor k from the camera, in 1e-5 m
ActorDistance(k) ==
    LET d == players[k].pawn_info.position - view.camera.position
    IN  (IF d < 0 THEN 0 - d ELSE d) * 1905

\* the near-players filter applies to actor k
TooFar(k) ==
    /\ TheProfile.near_players
    /\ ActorDistance(k) > TheProfile.near_players_distance

\* a render pass has run with a camera position and returned Ok
RenderedOk == last_op = "render" /\ result = "Ok" /\ view.camera.some

\* the tracer of actor k is due: the anchor is set and its point projects
TracerDue(k) ==
    /\ TheProfile.tracer_lines # "None"
    /\ players[k].pawn_info.position \in view.on_screen

\* some bone the skeleton loop of actor k reaches names a parent that has
\* no bone state
ParentWithoutState(k) ==
    LET bs == players[k].pawn_model.bone_states
    IN  \E i \in 1 .. Len(model.bones) :
            /\ i <= Len(bs)
            /\ model.bones[i].hitbox
            /\ model.bones[i].parent > Len(bs)

\* C11: whatever the bone data (a bone without parent, a parent index or a
\* head-bone index without bone state, no head bone, a point that does not
\* project), a render pass with a camera position and a resolvable model
\* returns Ok and still emits the later draws of every actor, here the
\* tracer of every actor that the filter keeps.
C11_MalformedBoneDataOnlySkips ==
    (last_op = "render" /\ view.camera.some /\ ~model.fail) =>
        /\ result = "Ok"
        /\ \A k \in 1 .. Len(players) :
            (TracerDue(k) /\ ~TooFar(k)) => Drawn(k, "tracer")

\* C12: in a pass that returned Ok with skeleton drawing enabled, a segment
\* is drawn for bone i of an actor exactly when the bone has a bone state,
\* is flagged as hitbox, has a parent, and the parent's and its own
\* position project; with skeleton drawing disabled no segment is drawn.
C12_SkeletonSegmentIff ==
    RenderedOk =>
        \A k \in 1 .. Len(players) : \A i \in 1 .. Len(model.bones) :
            LET bs == players[k].pawn_model.bone_states
                b == model.bones[i]
            IN  (\E j \in 1 .. Len(draws) :
                    /\ draws[j].actor = k
                    /\ draws[j].what = "skeleton"
                    /\ draws[j].arg = i)
                <=> /\ TheProfile.skeleton
                    /\ ~TooFar(k)
                    /\ i <= Len(bs)
                    /\ b.hitbox
                    /\ b.parent # 0
                    /\ b.parent <= Len(bs)
                    /\ bs[b.parent] \in view.on_screen
                    /\ bs[i] \in view.on_screen

\* a root bone and a bone without the hitbox flag gave no segment, and the
\* second actor's bones gave one
C12_Witness ==
    /\ RenderedOk
    /\ TheProfile.skeleton
    /\ Len(model.bones) = 2
    /\ model.bones[1].parent = 0
    /\ model.bones[1].hitbox
    /\ ~model.bones[2].hitbox
    /\ model.bones[2].parent = 1
    /\ players[1].pawn_model.bone_states = <<10, 11>>
    /\ {10, 11} \subseteq view.on_screen
    /\ ~Drawn(1, "skeleton")

\* C13: a render pass that finds no camera world position emits no draw
\* command and returns Ok.
C13_NoCameraAbortsPass ==
    (last_op = "render" /\ ~view.camera.some) =>
        (draws = <<>> /\ result = "Ok")

\* render ran without a camera position over a snapshot whose actors would
\* all have a tracer
C13_Witness ==
    /\ last_op = "render"
    /\ ~view.camera.some
    /\ players # <<>>
    /\ \A k \in 1 .. Len(players) : TracerDue(k) /\ ~TooFar(k)
    /\ draws = <<>>

\* C14: the health fraction (in percent) is within 0 .. 100 and is the
\* health itself within that range, 100 above it and 0 below it; the fill
\* of every health bar drawn splits at that fraction.
C14_HealthFractionClamped ==
    /\ \A h \in {-5, 0, 1, 50, 99, 100, 101, 150, 1000} :
        /\ PlayerRelHealth(h) \in 0 .. 100
        /\ (h \in 0 .. 100) => PlayerRelHealth(h) = h
        /\ (h > 100) => PlayerRelHealth(h) = 100
        /\ (h < 0) => PlayerRelHealth(h) = 0
    /\ \A i \in 1 .. Len(draws) :
        LET h == players[draws[i].actor].pawn_info.player_health
            f == IF h > 100 THEN 100 ELSE h
        IN  /\ draws[i].what = "health_green" => draws[i].arg = f
            /\ draws[i].what = "health_red" => draws[i].arg = 100 - f

\* the health bar of an actor with health 150 was drawn
C14_Witness ==
    /\ RenderedOk
    /\ players[1].pawn_info.player_health = 150
    /\ Drawn(1, "health_green")

\* the hull of actor k projects to a screen rectangle
HullProjects(k) == players[k].pawn_info.position \in view.box_2d

InfoKinds == {"info_name", "info_weapon", "info_hp_text", "info_flags", "info_distance"}

HealthBarKinds == {"health_border", "health_red", "health_green"}

\* C16: in a pass that returned Ok, an actor whose hull does not project
\* gets no box of either style, no health bar and no label line, and an
\* actor the filter keeps gets its tracer whenever the anchor is set and
\* its own point projects.
C16_HullGatesBoxBarLabels ==
    RenderedOk =>
        \A k \in 1 .. Len(players) :
            /\ ~HullProjects(k) =>
                \A what \in {"box_2d", "box_3d"} \cup HealthBarKinds \cup InfoKinds :
                    ~Drawn(k, what)
            /\ (TracerDue(k) /\ ~TooFar(k)) => Drawn(k, "tracer")

\* C16, amended: in a pass that returned Ok, an actor whose hull does not
\* project gets no 2D box, no health bar and no label line; the 3D box is
\* requested from the view for every actor the filter keeps when the box
\* style is 3D, whether or not the hull projects; the tracer is emitted
\* whenever the anchor is set and the actor's own point projects.
C16_HullGates2DBoxBarLabels ==
    RenderedOk =>
        \A k \in 1 .. Len(players) :
            /\ ~HullProjects(k) =>
                \A what \in {"box_2d"} \cup HealthBarKinds \cup InfoKinds :
                    ~Drawn(k, what)
            /\ Drawn(k, "box_3d") <=> (TheProfile.box_type = "Box3D" /\ ~TooFar(k))
            /\ (TracerDue(k) /\ ~TooFar(k)) => Drawn(k, "tracer")

\* the hull of the first actor does not project, its health bar and labels
\* are enabled, and only its 3D box and its tracer were drawn
C16_Witness ==
    /\ RenderedOk
    /\ ~HullProjects(1)
    /\ TheProfile.box_type = "Box3D"
    /\ TheProfile.health_bar # "None"
    /\ TheProfile.info_name
    /\ Drawn(1, "box_3d")
    /\ Drawn(1, "tracer")
    /\ ~Drawn(1, "health_border")
    /\ ~Drawn(1, "info_name")

\* the place of a label line in the stack
InfoRank(what) ==
    CASE what = "info_name" -> 1
      [] what = "info_weapon" -> 2
      [] what = "info_hp_text" -> 3
      [] what = "info_flags" -> 4
      [] what = "info_distance" -> 5

\* C17: in a pass that returned Ok, for an actor the filter keeps whose
\* hull projects, the name, weapon, health-text and distance lines are
\* present exactly when their toggles are enabled, the flags line exactly
\* when an enabled flag (kit, flashed) applies to the actor, and the lines
\* appear once each in the order name, weapon, health text, flags, distance.
C17_LabelLinesInOrder ==
    RenderedOk =>
        \A k \in 1 .. Len(players) :
            (HullProjects(k) /\ ~TooFar(k)) =>
                LET info == players[k].pawn_info
                IN  /\ Drawn(k, "info_name") <=> TheProfile.info_name
                    /\ Drawn(k, "info_weapon") <=> TheProfile.info_weapon
                    /\ Drawn(k, "info_hp_text") <=> TheProfile.info_hp_text
                    /\ Drawn(k, "info_distance") <=> TheProfile.info_distance
                    /\ Drawn(k, "info_flags") <=>
                            \/ TheProfile.info_flag_kit /\ info.player_has_defuser
                            \/ TheProfile.info_flag_flashed /\ info.player_flashtime > 0
                    /\ \A i, j \in 1 .. Len(draws) :
                            (/\ i < j
                             /\ draws[i].actor = k
                             /\ draws[j].actor = k
                             /\ draws[i].what \in InfoKinds
                             /\ draws[j].what \in InfoKinds) =>
                                InfoRank(draws[i].what) < InfoRank(draws[j].what)

\* all five lines of the first actor were drawn, the flags line for the
\* flash alone
C17_Witness ==
    /\ RenderedOk
    /\ HullProjects(1)
    /\ \A what \in InfoKinds : Drawn(1, what)
    /\ ~players[1].pawn_info.player_has_defuser
    /\ TheProfile.info_flag_kit

\* C18: in a pass that returned Ok, an actor whose distance exceeds the
\* threshold of a profile with the near-players filter enabled gets no draw
\* command at all, while the other actors of the pass are drawn; an actor
\* at or below the threshold, or any actor when the filter is disabled, is
\* drawn (its tracer, when the anchor is set and its point projects).
C18_NearPlayersFilter ==
    RenderedOk =>
        \A k \in 1 .. Len(players) :
            IF TooFar(k)
            THEN \A i \in 1 .. Len(draws) : draws[i].actor # k
            ELSE TracerDue(k) => Drawn(k, "tracer")

\* the first actor is beyond the threshold and got nothing, the second is
\* exactly at the threshold and was drawn
C18_Witness ==
    /\ RenderedOk
    /\ Len(players) >= 2
    /\ TooFar(1)
    /\ \A i \in 1 .. Len(draws) : draws[i].actor # 1
    /\ TheProfile.near_players
    /\ ActorDistance(2) = TheProfile.near_players_distance
    /\ Drawn(2, "tracer")

====
